---- MODULE Spec2Model ----
(***************************************************************************)
(* Model of src/alchemy.mts: the metadata matcher filterNFTMetadata, the   *)
(* NFT inventory flow nft(), the paginated deployment-history flow         *)
(* contractDeploymentTransactions(), the balance flows erc20() and         *)
(* nativeToken(), and main(), which runs the four flows in sequence.       *)
(*                                                                         *)
(* JavaScript values are modelled as records [kind, s, n]: kind is the     *)
(* typeof tag, s the text of a string, n the value of a number.            *)
(***************************************************************************)
EXTENDS Integers, Sequences, FiniteSets, TLC

VARIABLES
    \* one call of filterNFTMetadata
    m_pc, m_record, m_filter, m_result,
    \* one call of nft()
    n_pc, n_wallet, n_filter, n_owned, n_i, n_balance, n_nftData,
    \* one call of contractDeploymentTransactions()
    d_pc, d_source, d_calls, d_got, d_transfers, d_hashes, d_receipts,
    d_arrival, d_txns,
    \* one call of erc20()
    e_pc, e_wallet, e_decimals, e_tokenBalances, e_result,
    \* one call of nativeToken()
    t_pc, t_wallet, t_chain, t_result,
    \* one run of main()
    r_pc, r_started, r_finished, r_failed

mvars == <<m_pc, m_record, m_filter, m_result>>

nvars == <<n_pc, n_wallet, n_filter, n_owned, n_i, n_balance, n_nftData>>

dvars == <<d_pc, d_source, d_calls, d_got, d_transfers, d_hashes, d_receipts,
           d_arrival, d_txns>>

evars == <<e_pc, e_wallet, e_decimals, e_tokenBalances, e_result>>

tvars == <<t_pc, t_wallet, t_chain, t_result>>

rvars == <<r_pc, r_started, r_finished, r_failed>>

vars == <<mvars, nvars, dvars, evars, tvars, rvars>>

-----------------------------------------------------------------------------
(* JavaScript values *)

Undefined == [kind |-> "undefined", s |-> "", n |-> 0]
Null      == [kind |-> "null", s |-> "", n |-> 0]
NaN       == [kind |-> "NaN", s |-> "", n |-> 0]
Str(t)    == [kind |-> "string", s |-> t, n |-> 0]
Num(k)    == [kind |-> "number", s |-> "", n |-> k]

\* The decimal strings the model uses, with the number each one denotes.
NumericText == [t \in {"0", "1", "2", "3"} |->
                  CASE t = "0" -> 0 [] t = "1" -> 1 [] t = "2" -> 2 [] t = "3" -> 3]

\* ToNumber of a value: unary plus, Number(x), and the coercion inside == .
ToNumber(v) ==
    CASE v.kind = "number" -> v
      [] v.kind = "string" ->
            IF v.s \in DOMAIN NumericText THEN Num(NumericText[v.s])
            ELSE IF v.s = "" THEN Num(0) ELSE NaN
      [] v.kind = "null" -> Num(0)
      [] OTHER -> NaN

\* Number.prototype.toString / String.prototype.toString
toString(v) ==
    CASE v.kind = "string" -> v.s
      [] v.kind = "number" ->
            CHOOSE t \in DOMAIN NumericText : NumericText[t] = v.n
      [] OTHER -> v.kind

\* a !== b on primitives (NaN is unequal to everything, itself included)
StrictNeq(a, b) == a.kind = "NaN" \/ b.kind = "NaN" \/ a # b

\* a != b on primitives: null and undefined are equal to each other and to
\* nothing else; a number and a string are compared as numbers.
LooseNeq(a, b) ==
    CASE a.kind = "NaN" \/ b.kind = "NaN" -> TRUE
      [] a.kind = b.kind -> a # b
      [] a.kind \in {"null", "undefined"} /\ b.kind \in {"null", "undefined"} -> FALSE
      [] a.kind \in {"null", "undefined"} \/ b.kind \in {"null", "undefined"} -> TRUE
      [] OTHER -> ToNumber(a) # ToNumber(b) \/ ToNumber(a).kind = "NaN"

\* Truthiness of a primitive, as tested by if (x) and !x
Truthy(v) ==
    CASE v.kind = "string" -> v.s # ""
      [] v.kind = "number" -> v.n # 0
      [] OTHER -> FALSE

\* String.prototype.toLowerCase on the names the model uses
ToLowerCase(t) ==
    CASE t = "Color" -> "color"
      [] t = "Size" -> "size"
      [] t = "Name" -> "name"
      [] t = "tokenId" -> "tokenid"
      [] t = "tokenType" -> "tokentype"
      [] OTHER -> t

-----------------------------------------------------------------------------
(* Metadata records: NftMetadata and Partial<NftMetadata> *)

\* An object is [present, fields, hasAttrs, attributes]: fields maps the
\* object's own keys other than "attributes" to their values; hasAttrs says
\* whether the key "attributes" exists, attributes is its list.
Absent == [present |-> FALSE, fields |-> <<>>, hasAttrs |-> FALSE, attributes |-> <<>>]

Obj(f, h, a) == [present |-> TRUE, fields |-> f, hasAttrs |-> h, attributes |-> a]

\* The object {}
EmptyFilter == Obj(<<>>, FALSE, <<>>)

\* obj[key] for a key other than "attributes"
Get(obj, key) == IF key \in DOMAIN obj.fields THEN obj.fields[key] ELSE Undefined

\* lines 70-73: the trait map; a later entry overwrites an earlier one with
\* the same lower-cased name
NestedAttrs(attrs, name) ==
    LET hits == {i \in 1..Len(attrs) : ToLowerCase(attrs[i].trait_type) = name}
    IN  IF hits = {} THEN Undefined
        ELSE attrs[CHOOSE i \in hits : \A j \in hits : j <= i].value

\* lines 37-39
TopLevelAttrs(filterMetadata) == DOMAIN filterMetadata.fields

\* Mutant of TooManyFilterAttrs: the length test is off by one.
TooManyFilterAttrs_OffByOne(filterAttrs, nftAttrs) == Len(filterAttrs) > Len(nftAttrs) + 1

\* lines 54-57: the filter asks for more attributes than the record has
TooManyFilterAttrs(filterAttrs, nftAttrs) == Len(filterAttrs) > Len(nftAttrs)

\* lines 28-84. The result is "true", "false" or "TypeError" (line 43 reads a
\* property of undefined when the record is absent).
filterNFTMetadata(nftMetadata, filterMetadata) ==
    IF ~filterMetadata.present THEN "true"
    ELSE IF TopLevelAttrs(filterMetadata) # {} /\ ~nftMetadata.present THEN "TypeError"
    ELSE IF \E k \in TopLevelAttrs(filterMetadata) :
                StrictNeq(Get(nftMetadata, ToLowerCase(k)), filterMetadata.fields[k])
         THEN "false"
    ELSE IF /\ filterMetadata.hasAttrs
            /\ Len(filterMetadata.attributes) > 0
            /\ (~nftMetadata.present \/ ~nftMetadata.hasAttrs)
         THEN "false"
    ELSE IF /\ filterMetadata.hasAttrs
            /\ Len(filterMetadata.attributes) > 0
            /\ TooManyFilterAttrs(filterMetadata.attributes, nftMetadata.attributes)
         THEN "false"
    ELSE IF ~nftMetadata.present THEN "false"
    ELSE IF /\ nftMetadata.hasAttrs
            /\ filterMetadata.hasAttrs
            /\ \E i \in 1..Len(filterMetadata.attributes) :
                  LooseNeq(NestedAttrs(nftMetadata.attributes,
                                       ToLowerCase(filterMetadata.attributes[i].trait_type)),
                           filterMetadata.attributes[i].value)
         THEN "false"
    ELSE "true"

-----------------------------------------------------------------------------
(* Inputs of the matcher *)

MaxAttrs == 2

Keys == {"name", "Name"}
FieldValues == {Str("1"), Num(1)}
RecordTraits == {"Color", "color"}
FilterTraits == {"Color", "Size"}
TraitValues == {Str("Red"), Str("Blue")}

SeqsUpTo(S, n) == UNION {[1..l -> S] : l \in 0..n}

FieldMaps == UNION {[K -> FieldValues] : K \in SUBSET Keys}

Attr(T) == [trait_type : T, value : TraitValues]

Objects(T) ==
    {Obj(f, FALSE, <<>>) : f \in FieldMaps}
    \cup {Obj(f, TRUE, a) : f \in FieldMaps, a \in SeqsUpTo(Attr(T), MaxAttrs)}

Records == {Absent} \cup Objects(RecordTraits)
Filters == {Absent} \cup Objects(FilterTraits)

-----------------------------------------------------------------------------
(* The matcher applied to one pair of inputs *)

\* The matcher is not running
MIdle ==
    /\ m_pc = "idle"
    /\ m_record = Absent
    /\ m_filter = Absent
    /\ m_result = "none"

MInit ==
    /\ m_pc = "call"
    /\ m_record \in Records
    /\ m_filter \in Filters
    /\ m_result = "none"

MatcherCall ==
    /\ m_pc = "call"
    /\ m_result' = filterNFTMetadata(m_record, m_filter)
    /\ m_pc' = "done"
    /\ UNCHANGED <<m_record, m_filter>>
    /\ UNCHANGED <<nvars, dvars, evars, tvars, rvars>>

MatcherNext == MatcherCall

-----------------------------------------------------------------------------
(* nft(): the NFT inventory flow, lines 196-254 *)

MaxNfts == 2

TokenIds == {"1", "2"}
Balances == {"1", "2", "x"}

Color(v) == [trait_type |-> "Color", value |-> Str(v)]

\* raw.metadata of an owned NFT: absent, without attributes, or with one trait
NftMetadatas ==
    { Absent,
      Obj([name |-> Str("1")], FALSE, <<>>),
      Obj(<<>>, TRUE, <<Color("Red")>>),
      Obj(<<>>, TRUE, <<[trait_type |-> "color", value |-> Str("Blue")]>>) }

OwnedNfts == [tokenId : TokenIds, balance : Balances, tokenType : {"ERC721"},
              metadata : NftMetadatas]

\* The caller's filter: absent, empty, a token id, a trait, or both
NftFilters ==
    { Absent,
      EmptyFilter,
      Obj([tokenId |-> Num(1)], FALSE, <<>>),
      Obj([tokenId |-> Str("2")], FALSE, <<>>),
      Obj(<<>>, TRUE, <<Color("Red")>>),
      Obj(<<>>, TRUE, <<Color("Blue")>>),
      Obj([tokenId |-> Num(1)], TRUE, <<Color("Red")>>) }

\* lines 241-245: {...nft.raw.metadata, tokenId: Number(nft.tokenId), tokenType}
Tagged(nft) ==
    LET f == nft.metadata.fields
    IN  Obj([k \in DOMAIN f \cup {"tokenId", "tokenType"} |->
                CASE k = "tokenId" -> ToNumber(Str(nft.tokenId))
                  [] k = "tokenType" -> Str(nft.tokenType)
                  [] OTHER -> f[k]],
            nft.metadata.hasAttrs, nft.metadata.attributes)

\* Mutant of MetadataMatch: the matcher's answer is ignored.
MetadataMatch_Ignored(nft, nftMetadata) == TRUE

\* lines 220-223: the matcher is consulted only when the filter and the
\* NFT's metadata both exist
MetadataMatch(nft, nftMetadata) ==
    IF nftMetadata.present /\ nft.metadata.present
    THEN filterNFTMetadata(nft.metadata, nftMetadata) = "true"
    ELSE TRUE

\* lines 225-227: the token id test, applied when the filter's tokenId is truthy
TokenIdMatch(nft, nftMetadata) ==
    IF Truthy(Get(nftMetadata, "tokenId"))
    THEN ~LooseNeq(Str(nft.tokenId), Str(toString(Get(nftMetadata, "tokenId"))))
    ELSE TRUE

\* lines 218-228: the value of match when line 229 tests it
Match(nft, nftMetadata) == MetadataMatch(nft, nftMetadata) /\ TokenIdMatch(nft, nftMetadata)

\* lines 235-239: the balance after a matching NFT
AddBalance(balance, nft) ==
    IF ToNumber(Str(nft.balance)).kind = "NaN" THEN balance
    ELSE balance + ToNumber(Str(nft.balance)).n

\* Mutant of PushData: an NFT whose balance is not a number is left out.
PushData_NumericOnly(nftData, nft) ==
    IF nft.metadata.present /\ ToNumber(Str(nft.balance)).kind = "number"
    THEN Append(nftData, Tagged(nft)) ELSE nftData

\* lines 240-246: nftData after a matching NFT
PushData(nftData, nft) ==
    IF nft.metadata.present THEN Append(nftData, Tagged(nft)) ELSE nftData

NIdle ==
    /\ n_pc = "idle"
    /\ n_wallet = "undefined"
    /\ n_filter = Absent
    /\ n_owned = <<>>
    /\ n_i = 0
    /\ n_balance = 0
    /\ n_nftData = <<>>

NInit ==
    /\ n_pc = "start"
    /\ n_wallet \in {"undefined", "0x22"}
    /\ n_filter \in NftFilters
    /\ n_owned \in SeqsUpTo(OwnedNfts, MaxNfts)
    /\ n_i = 0
    /\ n_balance = 0
    /\ n_nftData = <<>>

\* lines 196-205: without a wallet return the empty summary, else query the
\* owned NFTs and suspend
NftCall ==
    /\ n_pc = "start"
    /\ n_pc' = IF n_wallet = "undefined" THEN "done" ELSE "await"
    /\ UNCHANGED <<n_wallet, n_filter, n_owned, n_i, n_balance, n_nftData>>
    /\ UNCHANGED <<mvars, dvars, evars, tvars, rvars>>

\* line 203 resolves: result.ownedNfts is n_owned; lines 210-213
NftOwnedResolved ==
    /\ n_pc = "await"
    /\ n_pc' = "loop"
    /\ n_i' = 1
    /\ n_balance' = 0
    /\ n_nftData' = <<>>
    /\ UNCHANGED <<n_wallet, n_filter, n_owned>>
    /\ UNCHANGED <<mvars, dvars, evars, tvars, rvars>>

\* line 203 rejects: nft() fails
NftOwnedRejected ==
    /\ n_pc = "await"
    /\ n_pc' = "failed"
    /\ UNCHANGED <<n_wallet, n_filter, n_owned, n_i, n_balance, n_nftData>>
    /\ UNCHANGED <<mvars, dvars, evars, tvars, rvars>>

\* lines 217-248: one iteration of the loop. Line 225 reads a property of
\* the filter and throws when the filter is absent.
NftIterate ==
    /\ n_pc = "loop"
    /\ n_i <= Len(n_owned)
    /\ IF ~n_filter.present
       THEN /\ n_pc' = "failed"
            /\ UNCHANGED <<n_i, n_balance, n_nftData>>
       ELSE /\ n_pc' = "loop"
            /\ n_i' = n_i + 1
            /\ IF Match(n_owned[n_i], n_filter)
               THEN /\ n_balance' = AddBalance(n_balance, n_owned[n_i])
                    /\ n_nftData' = PushData(n_nftData, n_owned[n_i])
               ELSE UNCHANGED <<n_balance, n_nftData>>
    /\ UNCHANGED <<n_wallet, n_filter, n_owned>>
    /\ UNCHANGED <<mvars, dvars, evars, tvars, rvars>>

\* lines 249-253
NftReturn ==
    /\ n_pc = "loop"
    /\ n_i > Len(n_owned)
    /\ n_pc' = "done"
    /\ UNCHANGED <<n_wallet, n_filter, n_owned, n_i, n_balance, n_nftData>>
    /\ UNCHANGED <<mvars, dvars, evars, tvars, rvars>>

NftNext ==
    \/ NftCall
    \/ NftOwnedResolved
    \/ NftOwnedRejected
    \/ NftIterate
    \/ NftReturn

-----------------------------------------------------------------------------
(* contractDeploymentTransactions(): lines 145-193 *)

MaxPages == 2
MaxPageLen == 2
MaxDeployments == 2

\* line 257
walletAddress == Str("0x228466F2C715CbEC05dEAbfAc040ce3619d7CF0B")

\* The hash of the i-th transfer the source holds, and the cursor that
\* designates its j-th page: strings told apart by their index.
TxHash(i) == [kind |-> "string", s |-> "0x", n |-> i]
PageKey(j) == [kind |-> "string", s |-> "page", n |-> j]

\* The recipients a transfer can have: null marks a contract creation
Recipients == {Null, Str("0xab")}

RECURSIVE Flatten(_)
Flatten(ss) == IF ss = <<>> THEN <<>> ELSE Head(ss) \o Flatten(Tail(ss))

\* The paged source whose pages hold transfers with the recipients tos[k]:
\* every page but the last carries the cursor of the next page.
Source(tos) ==
    [k \in 1..Len(tos) |->
        [transfers |-> [i \in 1..Len(tos[k]) |->
                           [hash |-> TxHash(Len(Flatten(SubSeq(tos, 1, k - 1))) + i),
                            to |-> tos[k][i]]],
         pageKey |-> IF k < Len(tos) THEN PageKey(k + 1) ELSE Undefined]]

Sources ==
    {Source(tos) : tos \in
        {t \in UNION {[1..n -> SeqsUpTo(Recipients, MaxPageLen)] : n \in 1..MaxPages} :
            Len(SelectSeq(Flatten(t), LAMBDA r : r = Null)) <= MaxDeployments}}

\* alchemy.core.getAssetTransfers answering a query: the first page when the
\* query has no pageKey, else the page the key designates
getAssetTransfers(source, pageKey) ==
    IF pageKey = Undefined THEN source[1] ELSE source[pageKey.n]

\* Mutant of PushAll: a page is put in front of the accumulator.
PushAll_InFront(transfers, page) == page \o transfers

\* lines 159 and 168: transfers.push(...response.transfers)
PushAll(transfers, page) == transfers \o page

\* Mutant of MorePages: the loop never asks for another page.
MorePages_Never(response) == FALSE

\* line 162: while (response.pageKey)
MorePages(response) == Truthy(response.pageKey)

\* Mutant of IsDeployment: the filter keeps the transfers that have a recipient.
IsDeployment_Inverted(transfer) == transfer.to # Null

\* line 173: transfer.to === null
IsDeployment(transfer) == transfer.to = Null

\* lines 173-174
TxHashes(transfers) ==
    LET deployments == SelectSeq(transfers, IsDeployment)
    IN  [i \in 1..Len(deployments) |-> deployments[i].hash]

\* What the i-th receipt promise resolved to, as receipt?.transactionHash
\* reads it: the hash of the receipt, or undefined for a null receipt
ReceiptHash(hashes, receipts, i) ==
    IF receipts[i] = "receipt" THEN hashes[i] ELSE Undefined

\* Mutant of PromiseAll: the values are listed in the order of resolution.
PromiseAll_ArrivalOrder(hashes, receipts, arrival) ==
    [i \in 1..Len(hashes) |-> ReceiptHash(hashes, receipts, arrival[i])]

\* line 182: Promise.all lists the values in the order of the promises
PromiseAll(hashes, receipts, arrival) ==
    [i \in 1..Len(hashes) |-> ReceiptHash(hashes, receipts, i)]

\* lines 183-188
DeploymentTxns(txReceipts) ==
    [i \in 1..Len(txReceipts) |->
        [from |-> walletAddress, to |-> Null, hash |-> txReceipts[i], value |-> 0]]

DIdle ==
    /\ d_pc = "idle"
    /\ d_source = <<>>
    /\ d_calls = <<>>
    /\ d_got = <<>>
    /\ d_transfers = <<>>
    /\ d_hashes = <<>>
    /\ d_receipts = <<>>
    /\ d_arrival = <<>>
    /\ d_txns = <<>>

DInit ==
    /\ d_pc = "start"
    /\ d_source \in Sources
    /\ d_calls = <<>>
    /\ d_got = <<>>
    /\ d_transfers = <<>>
    /\ d_hashes = <<>>
    /\ d_receipts = <<>>
    /\ d_arrival = <<>>
    /\ d_txns = <<>>

\* lines 145-158: the first page is requested without a pageKey
DeployCall ==
    /\ d_pc = "start"
    /\ d_calls' = <<Undefined>>
    /\ d_pc' = "awaitPage"
    /\ UNCHANGED <<d_source, d_got, d_transfers, d_hashes, d_receipts, d_arrival, d_txns>>
    /\ UNCHANGED <<mvars, nvars, evars, tvars, rvars>>

\* The awaited page arrives (line 158 or 164). The page is appended; while
\* it carries a pageKey the next page is requested with that key (lines
\* 162-167); otherwise the deployments are selected and one receipt is
\* requested per deployment hash (lines 170-182).
PageResolved ==
    /\ d_pc = "awaitPage"
    /\ LET response == getAssetTransfers(d_source, d_calls[Len(d_calls)])
           transfers == PushAll(d_transfers, response.transfers)
       IN  /\ d_got' = Append(d_got, [ok |-> TRUE, pageKey |-> response.pageKey])
           /\ d_transfers' = transfers
           /\ IF MorePages(response)
              THEN /\ d_calls' = Append(d_calls, response.pageKey)
                   /\ d_pc' = "awaitPage"
                   /\ UNCHANGED <<d_hashes, d_receipts>>
              ELSE /\ d_hashes' = TxHashes(transfers)
                   /\ d_receipts' = [i \in 1..Len(TxHashes(transfers)) |-> "pending"]
                   /\ d_pc' = "awaitReceipts"
                   /\ UNCHANGED d_calls
    /\ UNCHANGED <<d_source, d_arrival, d_txns>>
    /\ UNCHANGED <<mvars, nvars, evars, tvars, rvars>>

\* Mutant of PageRejected: the failure is swallowed and the flow goes on to
\* the receipts with the pages it has.
PageRejected_Swallowed ==
    /\ d_pc = "awaitPage"
    /\ d_got' = Append(d_got, [ok |-> FALSE, pageKey |-> Undefined])
    /\ d_hashes' = TxHashes(d_transfers)
    /\ d_receipts' = [i \in 1..Len(TxHashes(d_transfers)) |-> "pending"]
    /\ d_pc' = "awaitReceipts"
    /\ UNCHANGED <<d_source, d_calls, d_transfers, d_arrival, d_txns>>
    /\ UNCHANGED <<mvars, nvars, evars, tvars, rvars>>

\* The awaited page fetch rejects: the flow throws
PageRejected ==
    /\ d_pc = "awaitPage"
    /\ d_got' = Append(d_got, [ok |-> FALSE, pageKey |-> Undefined])
    /\ d_pc' = "failed"
    /\ UNCHANGED <<d_source, d_calls, d_transfers, d_hashes, d_receipts, d_arrival, d_txns>>
    /\ UNCHANGED <<mvars, nvars, evars, tvars, rvars>>

\* alchemy.core.getTransactionReceipt(hash) resolves, with the receipt of
\* that hash or with null; the receipts resolve in any order
ReceiptResolved ==
    /\ d_pc \in {"awaitReceipts", "failed"}
    /\ \E i \in 1..Len(d_receipts) : \E r \in {"receipt", "null"} :
          /\ d_receipts[i] = "pending"
          /\ d_receipts' = [d_receipts EXCEPT ![i] = r]
          /\ d_arrival' = Append(d_arrival, i)
    /\ UNCHANGED <<d_pc, d_source, d_calls, d_got, d_transfers, d_hashes, d_txns>>
    /\ UNCHANGED <<mvars, nvars, evars, tvars, rvars>>

\* Mutant of ReceiptRejected: the rejection does not end the flow.
ReceiptRejected_NotPropagated ==
    /\ d_pc \in {"awaitReceipts", "failed"}
    /\ \E i \in 1..Len(d_receipts) :
          /\ d_receipts[i] = "pending"
          /\ d_receipts' = [d_receipts EXCEPT ![i] = "rejected"]
          /\ d_arrival' = Append(d_arrival, i)
    /\ UNCHANGED <<d_pc, d_source, d_calls, d_got, d_transfers, d_hashes, d_txns>>
    /\ UNCHANGED <<mvars, nvars, evars, tvars, rvars>>

\* A receipt fetch rejects: Promise.all rejects and line 182 throws
ReceiptRejected ==
    /\ d_pc \in {"awaitReceipts", "failed"}
    /\ \E i \in 1..Len(d_receipts) :
          /\ d_receipts[i] = "pending"
          /\ d_receipts' = [d_receipts EXCEPT ![i] = "rejected"]
          /\ d_arrival' = Append(d_arrival, i)
    /\ d_pc' = "failed"
    /\ UNCHANGED <<d_source, d_calls, d_got, d_transfers, d_hashes, d_txns>>
    /\ UNCHANGED <<mvars, nvars, evars, tvars, rvars>>

\* Mutant of AllReceiptsResolved: the result is built as soon as one receipt
\* has resolved.
AllReceiptsResolved_First ==
    /\ d_pc = "awaitReceipts"
    /\ \E i \in 1..Len(d_receipts) : d_receipts[i] \in {"receipt", "null"}
    /\ d_txns' = DeploymentTxns(PromiseAll(d_hashes, d_receipts, d_arrival))
    /\ d_pc' = "done"
    /\ UNCHANGED <<d_source, d_calls, d_got, d_transfers, d_hashes, d_receipts, d_arrival>>
    /\ UNCHANGED <<mvars, nvars, evars, tvars, rvars>>

\* lines 182-192: every receipt promise has resolved, Promise.all resolves
\* and the result is built
AllReceiptsResolved ==
    /\ d_pc = "awaitReceipts"
    /\ \A i \in 1..Len(d_receipts) : d_receipts[i] \in {"receipt", "null"}
    /\ d_txns' = DeploymentTxns(PromiseAll(d_hashes, d_receipts, d_arrival))
    /\ d_pc' = "done"
    /\ UNCHANGED <<d_source, d_calls, d_got, d_transfers, d_hashes, d_receipts, d_arrival>>
    /\ UNCHANGED <<mvars, nvars, evars, tvars, rvars>>

DeployNext ==
    \/ DeployCall
    \/ PageResolved
    \/ PageRejected
    \/ ReceiptResolved
    \/ ReceiptRejected
    \/ AllReceiptsResolved

-----------------------------------------------------------------------------
(* erc20(): the fungible-token balance flow, lines 87-110 *)

MaxTokenBalances == 2
MaxDecimals == 2

\* line 258, and the address of some other contract
erc20ContractAddress == "0x75263A05D788da205a0fB719a4Fa93a403e0cBc0"
otherContractAddress == "0x00"

\* metadata.decimals: a number, or null when the token's decimals are unknown
Decimals == {Null} \cup {Num(k) : k \in 0..MaxDecimals}

\* An entry of result.tokenBalances: tokenBalance is a string or null
TokenBalances ==
    [contractAddress : {erc20ContractAddress, otherContractAddress},
     tokenBalance : {Null, Str("0"), Str("2")}]

\* BigInt(text) on the decimal strings the model uses
BigInt(v) == NumericText[v.s]

ZeroAmount == [balance |-> 0, decimals |-> 0]

\* lines 97-101: the condition under which an entry is returned
Usable(tokenBalance, contractAddress, decimals) ==
    /\ tokenBalance.contractAddress = contractAddress
    /\ Truthy(tokenBalance.tokenBalance)
    /\ Truthy(decimals)

\* lines 96-109: the first usable entry, or the zero amount
Erc20Amount(tokenBalances, contractAddress, decimals) ==
    LET hits == {i \in 1..Len(tokenBalances) :
                    Usable(tokenBalances[i], contractAddress, decimals)}
    IN  IF hits = {} THEN ZeroAmount
        ELSE [balance |-> BigInt(tokenBalances[CHOOSE i \in hits :
                                                  \A j \in hits : i <= j].tokenBalance),
              decimals |-> decimals.n]

EIdle ==
    /\ e_pc = "idle"
    /\ e_wallet = "undefined"
    /\ e_decimals = Null
    /\ e_tokenBalances = <<>>
    /\ e_result = ZeroAmount

EInit ==
    /\ e_pc = "start"
    /\ e_wallet \in {"undefined", "0x22"}
    /\ e_decimals \in Decimals
    /\ e_tokenBalances \in SeqsUpTo(TokenBalances, MaxTokenBalances)
    /\ e_result = ZeroAmount

\* lines 87-93: without a wallet return the zero amount, else ask for the
\* token metadata and suspend
ErcCall ==
    /\ e_pc = "start"
    /\ e_pc' = IF e_wallet = "undefined" THEN "done" ELSE "awaitMetadata"
    /\ e_result' = ZeroAmount
    /\ UNCHANGED <<e_wallet, e_decimals, e_tokenBalances>>
    /\ UNCHANGED <<mvars, nvars, dvars, tvars, rvars>>

\* line 93 resolves (metadata.decimals is e_decimals); line 94 asks for the
\* balances and suspends
ErcMetadataResolved ==
    /\ e_pc = "awaitMetadata"
    /\ e_pc' = "awaitBalances"
    /\ UNCHANGED <<e_wallet, e_decimals, e_tokenBalances, e_result>>
    /\ UNCHANGED <<mvars, nvars, dvars, tvars, rvars>>

\* line 93 rejects
ErcMetadataRejected ==
    /\ e_pc = "awaitMetadata"
    /\ e_pc' = "failed"
    /\ UNCHANGED <<e_wallet, e_decimals, e_tokenBalances, e_result>>
    /\ UNCHANGED <<mvars, nvars, dvars, tvars, rvars>>

\* line 94 resolves (result.tokenBalances is e_tokenBalances); lines 96-109
ErcBalancesResolved ==
    /\ e_pc = "awaitBalances"
    /\ e_result' = Erc20Amount(e_tokenBalances, erc20ContractAddress, e_decimals)
    /\ e_pc' = "done"
    /\ UNCHANGED <<e_wallet, e_decimals, e_tokenBalances>>
    /\ UNCHANGED <<mvars, nvars, dvars, tvars, rvars>>

\* line 94 rejects
ErcBalancesRejected ==
    /\ e_pc = "awaitBalances"
    /\ e_pc' = "failed"
    /\ UNCHANGED <<e_wallet, e_decimals, e_tokenBalances, e_result>>
    /\ UNCHANGED <<mvars, nvars, dvars, tvars, rvars>>

Erc20Next ==
    \/ ErcCall
    \/ ErcMetadataResolved
    \/ ErcMetadataRejected
    \/ ErcBalancesResolved
    \/ ErcBalancesRejected

-----------------------------------------------------------------------------
(* nativeToken(): the native balance flow, lines 122-134 *)

MaxNativeBalance == 20

\* line 132
NativeDecimals == 18

\* Mutant of NativeAmount: the decimals are left at zero.
NativeAmount_NoDecimals(result) == [balance |-> result, decimals |-> 0]

\* lines 130-133
NativeAmount(result) == [balance |-> result, decimals |-> NativeDecimals]

TIdle ==
    /\ t_pc = "idle"
    /\ t_wallet = "undefined"
    /\ t_chain = 0
    /\ t_result = ZeroAmount

TInit ==
    /\ t_pc = "start"
    /\ t_wallet \in {"undefined", "0x22"}
    /\ t_chain \in 0..MaxNativeBalance
    /\ t_result = ZeroAmount

\* lines 122-126: without a wallet return the zero amount, else ask for the
\* balance and suspend
NativeCall ==
    /\ t_pc = "start"
    /\ t_pc' = IF t_wallet = "undefined" THEN "done" ELSE "await"
    /\ t_result' = ZeroAmount
    /\ UNCHANGED <<t_wallet, t_chain>>
    /\ UNCHANGED <<mvars, nvars, dvars, evars, rvars>>

\* line 126 resolves with the balance t_chain; lines 130-133
NativeResolved ==
    /\ t_pc = "await"
    /\ t_result' = NativeAmount(t_chain)
    /\ t_pc' = "done"
    /\ UNCHANGED <<t_wallet, t_chain>>
    /\ UNCHANGED <<mvars, nvars, dvars, evars, rvars>>

\* line 126 rejects
NativeRejected ==
    /\ t_pc = "await"
    /\ t_pc' = "failed"
    /\ UNCHANGED <<t_wallet, t_chain, t_result>>
    /\ UNCHANGED <<mvars, nvars, dvars, evars, rvars>>

NativeNext ==
    \/ NativeCall
    \/ NativeResolved
    \/ NativeRejected

-----------------------------------------------------------------------------
(* main(): lines 256-271. The four flows are awaited one after the other   *)
(* inside one try block; the service's answers are drawn when a flow       *)
(* starts, and a flow's state is dropped when it returns.                  *)

\* lines 261-264, in the order of the awaits
FlowOrder == <<"erc20", "native", "deploy", "nft">>

\* Where the flow that main awaits stands
FlowPc(flow) ==
    CASE flow = "erc20" -> e_pc
      [] flow = "native" -> t_pc
      [] flow = "deploy" -> d_pc
      [] flow = "nft" -> n_pc
      [] OTHER -> "idle"

RIdle ==
    /\ r_pc = "idle"
    /\ r_started = <<>>
    /\ r_finished = <<>>
    /\ r_failed = "none"

RInit ==
    /\ r_pc = "start"
    /\ r_started = <<>>
    /\ r_finished = <<>>
    /\ r_failed = "none"

\* lines 256-261: main calls checkErc20 with the wallet of line 257
MainStart ==
    /\ r_pc = "start"
    /\ r_pc' = "erc20"
    /\ r_started' = <<"erc20">>
    /\ e_pc' = "start"
    /\ e_wallet' = "0x22"
    /\ e_decimals' \in Decimals
    /\ e_tokenBalances' \in SeqsUpTo(TokenBalances, MaxTokenBalances)
    /\ e_result' = ZeroAmount
    /\ UNCHANGED <<r_finished, r_failed>>
    /\ UNCHANGED <<mvars, nvars, dvars, tvars>>

\* A step of the flow that main awaits
MainErc20Step == r_pc = "erc20" /\ Erc20Next

MainNativeStep == r_pc = "native" /\ NativeNext

MainDeployStep == r_pc = "deploy" /\ DeployNext

MainNftStep == r_pc = "nft" /\ NftNext

\* line 261 returns
MainErc20Returned ==
    /\ r_pc = "erc20" /\ e_pc = "done"
    /\ r_pc' = "callNative"
    /\ r_finished' = Append(r_finished, "erc20")
    /\ e_pc' = "idle"
    /\ e_wallet' = "undefined"
    /\ e_decimals' = Null
    /\ e_tokenBalances' = <<>>
    /\ e_result' = ZeroAmount
    /\ UNCHANGED <<r_started, r_failed>>
    /\ UNCHANGED <<mvars, nvars, dvars, tvars>>

\* line 262: main calls checkNativeToken
MainCallNative ==
    /\ r_pc = "callNative"
    /\ r_pc' = "native"
    /\ r_started' = Append(r_started, "native")
    /\ t_pc' = "start"
    /\ t_wallet' = "0x22"
    /\ t_chain' \in 0..MaxNativeBalance
    /\ t_result' = ZeroAmount
    /\ UNCHANGED <<r_finished, r_failed>>
    /\ UNCHANGED <<mvars, nvars, dvars, evars>>

\* line 262 returns
MainNativeReturned ==
    /\ r_pc = "native" /\ t_pc = "done"
    /\ r_pc' = "callDeploy"
    /\ r_finished' = Append(r_finished, "native")
    /\ t_pc' = "idle"
    /\ t_wallet' = "undefined"
    /\ t_chain' = 0
    /\ t_result' = ZeroAmount
    /\ UNCHANGED <<r_started, r_failed>>
    /\ UNCHANGED <<mvars, nvars, dvars, evars>>

\* line 263: main calls contractDeploymentTransactions
MainCallDeploy ==
    /\ r_pc = "callDeploy"
    /\ r_pc' = "deploy"
    /\ r_started' = Append(r_started, "deploy")
    /\ d_pc' = "start"
    /\ d_source' \in Sources
    /\ d_calls' = <<>>
    /\ d_got' = <<>>
    /\ d_transfers' = <<>>
    /\ d_hashes' = <<>>
    /\ d_receipts' = <<>>
    /\ d_arrival' = <<>>
    /\ d_txns' = <<>>
    /\ UNCHANGED <<r_finished, r_failed>>
    /\ UNCHANGED <<mvars, nvars, evars, tvars>>

\* line 263 returns
MainDeployReturned ==
    /\ r_pc = "deploy" /\ d_pc = "done"
    /\ r_pc' = "callNft"
    /\ r_finished' = Append(r_finished, "deploy")
    /\ d_pc' = "idle"
    /\ d_source' = <<>>
    /\ d_calls' = <<>>
    /\ d_got' = <<>>
    /\ d_transfers' = <<>>
    /\ d_hashes' = <<>>
    /\ d_receipts' = <<>>
    /\ d_arrival' = <<>>
    /\ d_txns' = <<>>
    /\ UNCHANGED <<r_started, r_failed>>
    /\ UNCHANGED <<mvars, nvars, evars, tvars>>

\* line 264: main calls nft with the filter {}
MainCallNft ==
    /\ r_pc = "callNft"
    /\ r_pc' = "nft"
    /\ r_started' = Append(r_started, "nft")
    /\ n_pc' = "start"
    /\ n_wallet' = "0x22"
    /\ n_filter' = EmptyFilter
    /\ n_owned' \in SeqsUpTo(OwnedNfts, MaxNfts)
    /\ n_i' = 0
    /\ n_balance' = 0
    /\ n_nftData' = <<>>
    /\ UNCHANGED <<r_finished, r_failed>>
    /\ UNCHANGED <<mvars, dvars, evars, tvars>>

\* line 264 returns; the try block ends and main returns
MainNftReturned ==
    /\ r_pc = "nft" /\ n_pc = "done"
    /\ r_pc' = "done"
    /\ r_finished' = Append(r_finished, "nft")
    /\ n_pc' = "idle"
    /\ n_wallet' = "undefined"
    /\ n_filter' = Absent
    /\ n_owned' = <<>>
    /\ n_i' = 0
    /\ n_balance' = 0
    /\ n_nftData' = <<>>
    /\ UNCHANGED <<r_started, r_failed>>
    /\ UNCHANGED <<mvars, dvars, evars, tvars>>

\* Mutant of MainCatch: main has no catch and the failure leaves it.
MainCatch_Propagates ==
    /\ r_pc \in {"erc20", "native", "deploy", "nft"}
    /\ FlowPc(r_pc) = "failed"
    /\ r_failed' = r_pc
    /\ r_pc' = "uncaught"
    /\ e_pc' = "idle"
    /\ e_wallet' = "undefined"
    /\ e_decimals' = Null
    /\ e_tokenBalances' = <<>>
    /\ e_result' = ZeroAmount
    /\ t_pc' = "idle"
    /\ t_wallet' = "undefined"
    /\ t_chain' = 0
    /\ t_result' = ZeroAmount
    /\ d_pc' = "idle"
    /\ d_source' = <<>>
    /\ d_calls' = <<>>
    /\ d_got' = <<>>
    /\ d_transfers' = <<>>
    /\ d_hashes' = <<>>
    /\ d_receipts' = <<>>
    /\ d_arrival' = <<>>
    /\ d_txns' = <<>>
    /\ n_pc' = "idle"
    /\ n_wallet' = "undefined"
    /\ n_filter' = Absent
    /\ n_owned' = <<>>
    /\ n_i' = 0
    /\ n_balance' = 0
    /\ n_nftData' = <<>>
    /\ UNCHANGED <<r_started, r_finished>>
    /\ UNCHANGED mvars

\* lines 265-266: the awaited flow threw; its state is dropped and control
\* goes to the catch clause
MainCatch ==
    /\ r_pc \in {"erc20", "native", "deploy", "nft"}
    /\ FlowPc(r_pc) = "failed"
    /\ r_failed' = r_pc
    /\ r_pc' = "caught"
    /\ e_pc' = "idle"
    /\ e_wallet' = "undefined"
    /\ e_decimals' = Null
    /\ e_tokenBalances' = <<>>
    /\ e_result' = ZeroAmount
    /\ t_pc' = "idle"
    /\ t_wallet' = "undefined"
    /\ t_chain' = 0
    /\ t_result' = ZeroAmount
    /\ d_pc' = "idle"
    /\ d_source' = <<>>
    /\ d_calls' = <<>>
    /\ d_got' = <<>>
    /\ d_transfers' = <<>>
    /\ d_hashes' = <<>>
    /\ d_receipts' = <<>>
    /\ d_arrival' = <<>>
    /\ d_txns' = <<>>
    /\ n_pc' = "idle"
    /\ n_wallet' = "undefined"
    /\ n_filter' = Absent
    /\ n_owned' = <<>>
    /\ n_i' = 0
    /\ n_balance' = 0
    /\ n_nftData' = <<>>
    /\ UNCHANGED <<r_started, r_finished>>
    /\ UNCHANGED mvars

\* lines 266-268: the error is written to the console and main returns
MainReported ==
    /\ r_pc = "caught"
    /\ r_pc' = "done"
    /\ UNCHANGED <<r_started, r_finished, r_failed>>
    /\ UNCHANGED <<mvars, nvars, dvars, evars, tvars>>

MainNext ==
    \/ MainStart
    \/ MainErc20Step
    \/ MainErc20Returned
    \/ MainCallNative
    \/ MainNativeStep
    \/ MainNativeReturned
    \/ MainCallDeploy
    \/ MainDeployStep
    \/ MainDeployReturned
    \/ MainCallNft
    \/ MainNftStep
    \/ MainNftReturned
    \/ MainCatch
    \/ MainReported

-----------------------------------------------------------------------------
(* Specifications *)

MatcherInit == MInit /\ NIdle /\ DIdle /\ EIdle /\ TIdle /\ RIdle

MatcherSpec == MatcherInit /\ [][MatcherNext]_vars

NftInit == NInit /\ MIdle /\ DIdle /\ EIdle /\ TIdle /\ RIdle

NftSpec == NftInit /\ [][NftNext]_vars

DeployInit == DInit /\ MIdle /\ NIdle /\ EIdle /\ TIdle /\ RIdle

DeploySpec == DeployInit /\ [][DeployNext]_vars

Erc20Init == EInit /\ MIdle /\ NIdle /\ DIdle /\ TIdle /\ RIdle

Erc20Spec == Erc20Init /\ [][Erc20Next]_vars

NativeInit == TInit /\ MIdle /\ NIdle /\ DIdle /\ EIdle /\ RIdle

NativeSpec == NativeInit /\ [][NativeNext]_vars

MainInit == RInit /\ MIdle /\ NIdle /\ DIdle /\ EIdle /\ TIdle

MainSpec == MainInit /\ [][MainNext]_vars

-----------------------------------------------------------------------------
(* Properties of the matcher *)

\* Does the attribute list contain an entry named t (ignoring case) whose
\* value equals v?
HasTrait(attrs, t, v) ==
    \E i \in 1..Len(attrs) :
        /\ ToLowerCase(attrs[i].trait_type) = ToLowerCase(t)
        /\ ~LooseNeq(attrs[i].value, v)

\* C1: the matcher returns true for the empty filter {} and for an absent
\* filter, for every record, an absent record included.
C1_EmptyFilterMatchesAll ==
    (m_pc = "done" /\ m_filter \in {Absent, EmptyFilter}) => m_result = "true"

\* C7: for a filter that is a single attribute pair {trait_type: t, value: v}
\* the matcher returns true if and only if record.attributes has an entry
\* named t (ignoring case) with value v, and false otherwise, in particular
\* when record.attributes is absent.
C7_SingleAttrIff ==
    (/\ m_pc = "done"
     /\ m_filter.present
     /\ m_filter.fields = <<>>
     /\ m_filter.hasAttrs
     /\ Len(m_filter.attributes) = 1)
    => m_result =
         IF /\ m_record.present
            /\ m_record.hasAttrs
            /\ HasTrait(m_record.attributes,
                        m_filter.attributes[1].trait_type,
                        m_filter.attributes[1].value)
         THEN "true" ELSE "false"

\* The values that can be called "the record's value for k": the one under
\* the key k itself, and those under a field name equal to k ignoring case.
ValuesFor(obj, k) ==
    {Get(obj, k)} \cup
    {obj.fields[j] : j \in {i \in DOMAIN obj.fields : ToLowerCase(i) = ToLowerCase(k)}}

\* C8: for a filter with exactly one top-level field k the matcher returns
\* false when the record's value for k differs from the filter's value and
\* true otherwise, whatever other fields the record has. (Stated for the
\* records on which every reading of "the record's value for k" agrees.)
C8_SingleTopLevelField ==
    (/\ m_pc = "done"
     /\ m_filter.present
     /\ ~m_filter.hasAttrs
     /\ Cardinality(DOMAIN m_filter.fields) = 1
     /\ m_record.present)
    => \A k \in DOMAIN m_filter.fields :
          /\ (\A v \in ValuesFor(m_record, k) : StrictNeq(v, m_filter.fields[k]))
                => m_result = "false"
          /\ (\A v \in ValuesFor(m_record, k) : ~StrictNeq(v, m_filter.fields[k]))
                => m_result = "true"

\* C9: when filter.attributes has strictly more entries than
\* record.attributes the matcher returns false, whatever the entries are.
C9_LongerFilterFails ==
    (/\ m_pc = "done"
     /\ m_filter.present
     /\ m_filter.hasAttrs
     /\ m_record.present
     /\ m_record.hasAttrs
     /\ Len(m_filter.attributes) > Len(m_record.attributes))
    => m_result = "false"

\* Witness of C9: the filter repeats a trait the record has, so each filter
\* entry matches on its own, and the matcher has answered false.
C9_Witness ==
    /\ m_pc = "done"
    /\ m_record = Obj(<<>>, TRUE, <<[trait_type |-> "Color", value |-> Str("Red")]>>)
    /\ m_filter = Obj(<<>>, TRUE, <<[trait_type |-> "Color", value |-> Str("Red")],
                                    [trait_type |-> "Color", value |-> Str("Red")]>>)
    /\ m_result = "false"

-----------------------------------------------------------------------------
(* Properties of nft() *)

RECURSIVE SumBalances(_)
\* The sum of the numeric balances of a list of NFTs (an unparseable balance
\* counts as zero)
SumBalances(nfts) ==
    IF nfts = <<>> THEN 0
    ELSE (IF ToNumber(Str(Head(nfts).balance)).kind = "NaN" THEN 0
          ELSE ToNumber(Str(Head(nfts).balance)).n) + SumBalances(Tail(nfts))

\* The metadata of a list of NFTs, each tagged with its token id and type
MetadataOf(nfts) == [i \in 1..Len(nfts) |-> Tagged(nfts[i])]

AllCarryMetadata == \A i \in 1..Len(n_owned) : n_owned[i].metadata.present

AllBalancesNumeric ==
    \A i \in 1..Len(n_owned) : ToNumber(Str(n_owned[i].balance)).kind = "number"

\* nft() has returned the summary built from the service's answer
NftReturned == n_pc = "done" /\ n_wallet # "undefined"

IsTraitFilter(f) == f.present /\ f.fields = <<>> /\ f.hasAttrs

IsTokenIdFilter(f) == f.present /\ DOMAIN f.fields = {"tokenId"} /\ ~f.hasAttrs

MatcherAccepts(nft) == filterNFTMetadata(nft.metadata, n_filter) = "true"

\* C6: when every owned NFT carries metadata and a numeric balance and the
\* filter is a trait filter, nftData is the (tagged) metadata of exactly the
\* NFTs the matcher accepts, in source order, and balance is the sum of the
\* balances of exactly those NFTs.
C6_TraitFilterSelects ==
    (NftReturned /\ IsTraitFilter(n_filter) /\ AllCarryMetadata /\ AllBalancesNumeric)
    => /\ n_nftData = MetadataOf(SelectSeq(n_owned, MatcherAccepts))
       /\ n_balance = SumBalances(SelectSeq(n_owned, MatcherAccepts))

\* Witness of C6: two owned NFTs, the first rejected by the trait filter and
\* the second accepted; the summary holds the second one only.
C6_Witness ==
    /\ NftReturned /\ IsTraitFilter(n_filter) /\ AllCarryMetadata /\ AllBalancesNumeric
    /\ Len(n_owned) = 2
    /\ ~MatcherAccepts(n_owned[1])
    /\ MatcherAccepts(n_owned[2])
    /\ n_nftData = <<Tagged(n_owned[2])>>
    /\ n_balance = 2

TokenIdEquals(nft) == nft.tokenId = toString(Get(n_filter, "tokenId"))

\* C10: when the filter specifies a token id and nothing else, an owned NFT
\* that carries metadata is counted if and only if its token id equals the
\* filter's token id as strings: its balance is added and its metadata
\* appended, and any other NFT contributes nothing.
C10_TokenIdFilterSelects ==
    (NftReturned /\ IsTokenIdFilter(n_filter) /\ AllCarryMetadata)
    => /\ n_nftData = MetadataOf(SelectSeq(n_owned, TokenIdEquals))
       /\ n_balance = SumBalances(SelectSeq(n_owned, TokenIdEquals))

-----------------------------------------------------------------------------
(* Properties of contractDeploymentTransactions() *)

\* The items of every page of the source, page after page
AllItems == Flatten([k \in 1..Len(d_source) |-> d_source[k].transfers])

\* The pagination loop has ended: the receipts are awaited or the call returned
Drained == d_pc \in {"awaitReceipts", "done"}

\* C2: the accumulator built by the pagination loop is the concatenation of
\* the items of page 1, page 2, ..., page n, in that order: nothing is
\* lost, duplicated or reordered.
C2_DrainIsConcatenation == Drained => d_transfers = AllItems

\* Witness of C2: two pages of two and one items have been drained.
C2_Witness ==
    /\ Drained
    /\ Len(d_source) = 2
    /\ Len(d_source[1].transfers) = 2
    /\ Len(d_source[2].transfers) = 1
    /\ Len(d_transfers) = 3

\* C3: a source of n pages is asked exactly n times; fetch k+1 is issued
\* only after response k has arrived and carries the cursor of response k,
\* no fetch follows a response without a cursor, and at most one page fetch
\* is outstanding.
C3_SequentialChainedFetches ==
    /\ Len(d_calls) - Len(d_got) \in {0, 1}
    /\ \A k \in 1..(Len(d_calls) - 1) :
          /\ d_got[k].ok
          /\ Truthy(d_got[k].pageKey)
          /\ d_calls[k + 1] = d_got[k].pageKey
    /\ Drained => /\ Len(d_calls) = Len(d_source)
                  /\ Len(d_got) = Len(d_source)

\* Witness of C3: a two-page source has been drained with two fetches.
C3_Witness ==
    /\ d_pc = "done"
    /\ Len(d_source) = 2
    /\ d_calls = <<Undefined, PageKey(2)>>

\* The positions of the transfers whose recipient is null, in ascending order
RECURSIVE NullPositions(_, _)
NullPositions(transfers, i) ==
    IF i > Len(transfers) THEN <<>>
    ELSE (IF transfers[i].to = Null THEN <<i>> ELSE <<>>)
         \o NullPositions(transfers, i + 1)

\* C4: the result has exactly one entry per drained transfer whose
\* recipient is null and none for the others; each entry has value 0,
\* to = null and from = the wallet, and the entries are in the order of
\* those transfers (an entry carries the hash of its transfer, or none when
\* the receipt is absent).
C4_OneEntryPerDeployment ==
    d_pc = "done" =>
      LET pos == NullPositions(d_transfers, 1)
      IN  /\ Len(d_txns) = Len(pos)
          /\ \A i \in 1..Len(d_txns) :
                /\ d_txns[i].value = 0
                /\ d_txns[i].to = Null
                /\ d_txns[i].from = walletAddress
                /\ d_txns[i].hash \in {d_transfers[pos[i]].hash, Undefined}

\* Witness of C4: four transfers, the second and the fourth with a null
\* recipient, gave two entries with the hashes of those two transfers.
C4_Witness ==
    /\ d_pc = "done"
    /\ Len(d_transfers) = 4
    /\ NullPositions(d_transfers, 1) = <<2, 4>>
    /\ Len(d_txns) = 2
    /\ d_txns[1].hash = d_transfers[2].hash
    /\ d_txns[2].hash = d_transfers[4].hash

\* C5: whatever the order in which the receipt fetches resolve, the i-th
\* entry of the result carries the transaction hash of the receipt fetched
\* for the i-th deployment transfer.
C5_PairedByPosition ==
    d_pc = "done" =>
      \A i \in 1..Len(d_hashes) :
          d_txns[i].hash =
             IF d_receipts[i] = "receipt"
             THEN d_transfers[NullPositions(d_transfers, 1)[i]].hash
             ELSE Undefined

\* Witness of C5: the receipt of the second deployment resolved before the
\* receipt of the first, and the result is in deployment order.
C5_Witness ==
    /\ d_pc = "done"
    /\ d_arrival = <<2, 1>>
    /\ d_receipts = <<"receipt", "receipt">>
    /\ d_txns[1].hash = d_hashes[1]
    /\ d_txns[2].hash = d_hashes[2]
    /\ d_hashes[1] # d_hashes[2]

\* C11: when the receipt fetch of one deployment hash fails, the call fails
\* as a whole: no result is returned, complete or partial, and no receipt is
\* fetched again (every fetch settles once and stays settled).
C11_ReceiptFailureFailsAll ==
    /\ (\E i \in 1..Len(d_receipts) : d_receipts[i] = "rejected")
          => (d_pc = "failed" /\ d_txns = <<>>)
    /\ \A j, k \in 1..Len(d_arrival) : d_arrival[j] = d_arrival[k] => j = k
    /\ \A j \in 1..Len(d_arrival) : d_receipts[d_arrival[j]] # "pending"
    /\ Len(d_receipts) = Len(d_hashes)

\* Witness of C11: of two receipts the first resolved and the second was
\* rejected; the call has failed and returned nothing.
C11_Witness ==
    /\ d_pc = "failed"
    /\ d_receipts = <<"receipt", "rejected">>
    /\ d_arrival = <<1, 2>>
    /\ d_txns = <<>>

\* C12: when a page fetch fails, first or later, the call fails: the failed
\* fetch is the last page fetch, no receipt is fetched, and nothing of what
\* was accumulated is returned.
C12_PageFailureAborts ==
    (\E k \in 1..Len(d_got) : ~d_got[k].ok)
       => /\ d_pc = "failed"
          /\ ~d_got[Len(d_got)].ok
          /\ Len(d_calls) = Len(d_got)
          /\ d_hashes = <<>>
          /\ d_receipts = <<>>
          /\ d_txns = <<>>

\* Witness of C12: the second page fetch failed after the first page had
\* delivered a deployment transfer.
C12_Witness ==
    /\ d_pc = "failed"
    /\ Len(d_got) = 2
    /\ ~d_got[2].ok
    /\ \E i \in 1..Len(d_transfers) : d_transfers[i].to = Null

\* The last page response has arrived: every page of the source was
\* delivered and the last response carries no cursor
LastPageArrived ==
    /\ Len(d_got) = Len(d_source)
    /\ \A k \in 1..Len(d_got) : d_got[k].ok
    /\ ~Truthy(d_got[Len(d_got)].pageKey)

\* C16: one receipt is fetched per transfer with a null recipient and none
\* for the others, no receipt is fetched before the last page response has
\* arrived, and the result is produced only after every receipt fetch that
\* was issued has resolved.
C16_FanOutAfterDrain ==
    /\ (d_receipts # <<>> \/ d_pc \in {"awaitReceipts", "done"})
          => /\ LastPageArrived
             /\ Len(d_receipts) = Len(NullPositions(AllItems, 1))
             /\ \A i \in 1..Len(d_receipts) :
                   d_hashes[i] = AllItems[NullPositions(AllItems, 1)[i]].hash
    /\ d_pc = "done"
          => \A i \in 1..Len(d_receipts) : d_receipts[i] \in {"receipt", "null"}

\* Witness of C16: two receipts were fetched for two deployments among three
\* transfers, both have resolved and the result was produced.
C16_Witness ==
    /\ d_pc = "done"
    /\ Len(AllItems) = 3
    /\ Len(d_receipts) = 2
    /\ Len(d_txns) = 2

-----------------------------------------------------------------------------
(* Further properties of the matcher and of nft() *)

\* C18: top-level filter keys are compared with the record's field names
\* ignoring case: when the filter's only field k and the record's only
\* field j differ at most in letter case, the matcher returns true if their
\* values are exactly equal and false if they differ.
C18_TopLevelKeysIgnoreCase ==
    (/\ m_pc = "done"
     /\ m_filter.present
     /\ ~m_filter.hasAttrs
     /\ m_record.present
     /\ Cardinality(DOMAIN m_filter.fields) = 1
     /\ Cardinality(DOMAIN m_record.fields) = 1)
    => \A k \in DOMAIN m_filter.fields : \A j \in DOMAIN m_record.fields :
          ToLowerCase(k) = ToLowerCase(j)
             => m_result = IF StrictNeq(m_record.fields[j], m_filter.fields[k])
                           THEN "false" ELSE "true"

\* C19: for an absent record and any non-empty filter the matcher returns
\* false as a value and raises no error.
C19_AbsentRecordIsFalse ==
    (/\ m_pc = "done"
     /\ m_record = Absent
     /\ m_filter.present
     /\ m_filter # EmptyFilter)
    => m_result = "false"

\* The owned NFTs that nft() has gone through
Processed == SubSeq(n_owned, 1, n_i - 1)

\* With a filter that names no token id, an NFT is counted when it carries
\* no metadata or the matcher accepts its metadata
Counted(nft) == ~nft.metadata.present \/ MatcherAccepts(nft)

CarriesMetadata(nft) == nft.metadata.present

CountedWithMetadata(nft) == nft.metadata.present /\ MatcherAccepts(nft)

\* C17: a matching NFT whose balance does not coerce to a number adds
\* nothing to the balance while its metadata is still appended; the flow
\* does not fail on it and goes on with the NFTs after it. (Stated for the
\* filters without a token id: after each iteration balance is the sum of
\* the numeric balances of the counted NFTs so far and nftData holds the
\* metadata of every counted NFT so far; the flow fails only on a rejected
\* query or an absent filter.)
C17_NaNBalanceKeepsRecord ==
    /\ (n_pc \in {"loop", "done"} /\ n_i > 0 /\ n_filter.present
           /\ "tokenId" \notin DOMAIN n_filter.fields)
          => /\ n_balance = SumBalances(SelectSeq(Processed, Counted))
             /\ n_nftData = MetadataOf(SelectSeq(Processed, CountedWithMetadata))
    /\ n_pc = "failed" => (n_i = 0 \/ ~n_filter.present)

\* Witness of C17: the first of two matching NFTs has the balance "x", the
\* second the balance "2"; nft() returned balance 2 and both records.
C17_Witness ==
    /\ NftReturned
    /\ n_filter = EmptyFilter
    /\ Len(n_owned) = 2
    /\ n_owned[1].balance = "x"
    /\ n_owned[2].balance = "2"
    /\ AllCarryMetadata
    /\ n_balance = 2
    /\ n_nftData = <<Tagged(n_owned[1]), Tagged(n_owned[2])>>

\* C20: balance and nftData describe the same NFTs: when the filter has a
\* non-empty attributes list, an owned NFT without metadata adds nothing to
\* balance (here: when no owned NFT carries metadata, balance stays 0).
C20_NoMetadataNoBalance ==
    (/\ NftReturned
     /\ n_filter.present
     /\ n_filter.hasAttrs
     /\ Len(n_filter.attributes) > 0
     /\ \A i \in 1..Len(n_owned) : ~n_owned[i].metadata.present)
    => (n_balance = 0 /\ n_nftData = <<>>)

-----------------------------------------------------------------------------
(* Properties of erc20() and nativeToken() *)

\* The entries for the requested contract that hold a balance
Held ==
    {i \in 1..Len(e_tokenBalances) :
        /\ e_tokenBalances[i].contractAddress = erc20ContractAddress
        /\ e_tokenBalances[i].tokenBalance # Null}

\* C13: erc20() returns {0, 0} when the requested contract is not in the
\* balance list or the decimals are unknown, and whenever the contract is
\* there with a balance and the metadata reports decimals (any non-negative
\* integer) it returns that balance with those decimals.
C13_Erc20Amount ==
    (e_pc = "done" /\ e_wallet # "undefined")
    => IF Held # {} /\ e_decimals # Null
       THEN /\ e_result.decimals = e_decimals.n
            /\ \E i \in Held : e_result.balance = BigInt(e_tokenBalances[i].tokenBalance)
       ELSE e_result = ZeroAmount

\* C15: a balance that nativeToken() obtained from the chain query is
\* returned with decimals = 18, whatever the balance, 0 included.
C15_NativeDecimals18 ==
    (t_pc = "done" /\ t_wallet # "undefined")
    => (t_result.balance = t_chain /\ t_result.decimals = 18)

\* Witness of C15: the chain reported the balance 0 and it was returned.
C15_Witness ==
    /\ t_pc = "done"
    /\ t_wallet # "undefined"
    /\ t_chain = 0
    /\ t_result = [balance |-> 0, decimals |-> 18]

-----------------------------------------------------------------------------
(* Properties of main() *)

\* C14: main runs the four flows strictly one after the other (fungible
\* balance, native balance, deployment history, NFT inventory); a failure of
\* a flow is caught by main, no later flow is started, and main ends
\* without passing the failure on.
C14_SequentialFlowsOneCatch ==
    /\ r_started = SubSeq(FlowOrder, 1, Len(r_started))
    /\ r_finished = SubSeq(FlowOrder, 1, Len(r_finished))
    /\ Len(r_started) - Len(r_finished) \in {0, 1}
    /\ r_pc \in {"erc20", "native", "deploy", "nft"}
          => r_started = Append(r_finished, r_pc)
    /\ \A f \in {"erc20", "native", "deploy", "nft"} :
          FlowPc(f) = "failed" => r_started = Append(r_finished, f)
    /\ r_failed # "none"
          => /\ r_pc \in {"caught", "done"}
             /\ r_started = Append(r_finished, r_failed)
    /\ (r_pc = "done" /\ r_failed = "none") => r_finished = FlowOrder
    /\ r_pc \in {"start", "erc20", "callNative", "native", "callDeploy", "deploy",
                 "callNft", "nft", "caught", "done"}

\* Witness of C14: the deployment flow failed after the two balance flows
\* had returned; main caught the failure and ended, and nft() never started.
C14_Witness ==
    /\ r_pc = "done"
    /\ r_failed = "deploy"
    /\ r_started = <<"erc20", "native", "deploy">>
    /\ r_finished = <<"erc20", "native">>
    /\ n_pc = "idle"

====
